---------------------------- MODULE Spec2Model ----------------------------
(***************************************************************************)
(* A model of exporter.py: the background worker fetch_metrics (one        *)
(* refresh cycle = subscription pass, fetch_charge_metrics, 24h-by-plan    *)
(* breakdown, then time.sleep), the Prometheus gauges it writes, and the   *)
(* main thread that waits for KeyboardInterrupt.                           *)
(*                                                                         *)
(* Gauge values are Python floats in the program.  The model computes      *)
(* them as exact rationals <<n, d>> (d > 0, lowest terms), so x / 100.0 is *)
(* a real division and rounding error of IEEE doubles is not represented.  *)
(***************************************************************************)
EXTENDS Integers, Sequences, FiniteSets

(***************************************************************************)
(* Bounds of the model.                                                    *)
(***************************************************************************)
MaxSubs == 2        \* subscriptions streamed in one cycle
MaxCharges == 2     \* charges on the page returned by Charge.list

(***************************************************************************)
(* Python values.                                                          *)
(***************************************************************************)
\* None for an integer field (item.quantity, price.unit_amount).
NONE == -1

\* `x or default` for an integer field: None and 0 are falsy.
OrInt(x, default) == IF x = NONE \/ x = 0 THEN default ELSE x

\* `a or b` for strings: None and "" are falsy.
OrStr(a, b) == IF a = "" THEN b ELSE a

(***************************************************************************)
(* Exact rational arithmetic for the float expressions of the program.     *)
(***************************************************************************)
Abs(x) == IF x < 0 THEN -x ELSE x

RECURSIVE GCD(_, _)
GCD(a, b) == IF b = 0 THEN a ELSE GCD(b, a % b)

\* The rational n/d in lowest terms with a positive denominator.
Rat(n, d) ==
    LET g == GCD(Abs(n), Abs(d))
        s == IF d < 0 THEN -1 ELSE 1
    IN  <<(s * n) \div g, (s * d) \div g>>

FromInt(n) == <<n, 1>>
RAdd(x, y) == Rat(x[1] * y[2] + y[1] * x[2], x[2] * y[2])
RSub(x, y) == Rat(x[1] * y[2] - y[1] * x[2], x[2] * y[2])
RMul(x, y) == Rat(x[1] * y[1], x[2] * y[2])
RDivInt(x, k) == Rat(x[1], x[2] * k)

\* A labelled gauge child that was never set exports no sample.
UNSET == <<0, 0>>

(***************************************************************************)
(* Fee configuration (defaults of the environment variables).              *)
(***************************************************************************)
FEE_PERCENT == Rat(29, 1000)
FEE_FLAT == Rat(30, 100)

(***************************************************************************)
(* Python dicts as functions on the set of keys inserted so far.           *)
(***************************************************************************)
EmptyDict == [k \in {} |-> 0]
Get(d, k, default) == IF k \in DOMAIN d THEN d[k] ELSE default
Put(d, k, v) == [x \in (DOMAIN d) \cup {k} |-> IF x = k THEN v ELSE d[x]]

(***************************************************************************)
(* The billing API's data the cycles may see.                              *)
(***************************************************************************)
PriceBasic == [id |-> "price_basic", unit_amount |-> 1000,
               nickname |-> "Basic", product |-> "prod_gold"]
PriceGold == [id |-> "price_gold", unit_amount |-> 250,
              nickname |-> "", product |-> "prod_gold"]
PriceBare == [id |-> "price_bare", unit_amount |-> NONE,
              nickname |-> "", product |-> "prod_anon"]
Prices == {PriceBasic, PriceGold, PriceBare}
Products == {"prod_gold", "prod_anon"}

\* stripe.Product.retrieve(product).name
ProductName(product) == IF product = "prod_gold" THEN "Gold" ELSE ""

\* Every label value a by-plan gauge can get.
PlanNames == {"Basic", "Gold", "price_bare"}

Item(price, quantity) == [price |-> price, quantity |-> quantity]

\* A subscription is the list s["items"].data: none, one or two items, with
\* a quantity that is absent, 0 or 2.
Subscriptions ==
    { <<>>,
      <<Item(PriceBasic, 2)>>,
      <<Item(PriceBare, 0)>>,
      <<Item(PriceBasic, 0), Item(PriceGold, 2)>>,
      <<Item(PriceGold, 2), Item(PriceGold, NONE)>> }

RECURSIVE SeqsUpTo(_, _)
SeqsUpTo(S, n) ==
    IF n = 0 THEN {<<>>}
    ELSE LET shorter == SeqsUpTo(S, n - 1)
         IN  shorter \cup {Append(s, x) : s \in shorter, x \in S}

SubLists == SeqsUpTo(Subscriptions, MaxSubs)
FewSubLists == {<<>>, << <<Item(PriceBasic, 2)>>, <<Item(PriceBare, 0)>> >>}

NoInvoice == ""
NoBT == [present |-> FALSE, fee |-> 0, net |-> 0]
BT(fee, net) == [present |-> TRUE, fee |-> fee, net |-> net]
Charge(amount, paid, status, invoice, bt) ==
    [amount |-> amount, paid |-> paid, status |-> status,
     invoice |-> invoice, balance_transaction |-> bt]

Charges ==
    { Charge(100, TRUE, "succeeded", "inv_1", BT(5, 95)),
      Charge(200, TRUE, "succeeded", "inv_1", BT(9, 191)),
      Charge(200, TRUE, "succeeded", "inv_2", BT(9, 191)),
      Charge(100, TRUE, "succeeded", NoInvoice, BT(5, 95)),
      Charge(100, TRUE, "succeeded", "inv_1", NoBT),
      Charge(200, TRUE, "succeeded", NoInvoice, NoBT),
      Charge(100, FALSE, "failed", "inv_1", NoBT),
      Charge(200, TRUE, "pending", "inv_2", NoBT) }

Pages == SeqsUpTo(Charges, MaxCharges)
FewPages == {<<>>, <<Charge(100, TRUE, "succeeded", "inv_1", BT(5, 95))>>,
             <<Charge(100, TRUE, "succeeded", "inv_1", NoBT)>>}

Line(type, price, quantity) ==
    [type |-> type, price |-> price, quantity |-> quantity]

\* stripe.Invoice.retrieve(id, expand=[...]): the invoice with its lines.
Invoice(id) ==
    [id |-> id,
     lines |-> IF id = "inv_1"
               THEN << Line("subscription", PriceBasic, 1),
                       Line("invoiceitem", PriceGold, 2) >>
               ELSE << Line("subscription", PriceGold, 2),
                       Line("subscription", PriceBare, NONE),
                       Line("subscription", PriceGold, 0) >>]

(***************************************************************************)
(* State.                                                                  *)
(***************************************************************************)
VARIABLES
    pc,                         \* where the worker thread stands
    main,                       \* the main thread: "waiting" or "exited"
    failedAt,                   \* the call logged by logger.exception, or ""
    subs,                       \* subscriptions streamed in this cycle
    charges,                    \* charges.data fetched in this cycle
    lookups,                    \* Product.retrieve calls of this cycle, per product
    active_subs,
    subs_count_by_plan,
    subs_mrr_by_plan,
    subs_net_mrr_by_plan,
    payment_count_24h,
    total_revenue_24h,
    avg_payment_24h,
    fees_24h,
    net_revenue_24h,
    payment_count_24h_by_plan,
    revenue_24h_by_plan,
    revenue_net_24h_by_plan

subGauges == <<active_subs, subs_count_by_plan, subs_mrr_by_plan,
               subs_net_mrr_by_plan>>
chargeGauges == <<payment_count_24h, total_revenue_24h, avg_payment_24h,
                  fees_24h, net_revenue_24h>>
planChargeGauges == <<payment_count_24h_by_plan, revenue_24h_by_plan,
                      revenue_net_24h_by_plan>>
gauges == <<subGauges, chargeGauges, planChargeGauges>>
vars == <<pc, main, failedAt, subs, charges, lookups, gauges>>

(***************************************************************************)
(* Subscription pass (fetch_metrics, first half).                          *)
(***************************************************************************)
\* Variant: the quantity field as it stands (no `or 1`).
ItemQtyRaw(item) == IF item.quantity = NONE THEN 0 ELSE item.quantity
\* qty = item.quantity or 1
ItemQty(item) == OrInt(item.quantity, 1)

\* gross = (price.unit_amount or 0) * qty / 100.0
Gross(price, qty) == RDivInt(FromInt(OrInt(price.unit_amount, 0) * qty), 100)

\* Variant: the flat fee left out.
ItemNetPercentOnly(gross, qty) == RMul(gross, RSub(FromInt(1), FEE_PERCENT))
\* net = gross * (1 - FEE_PERCENT) - FEE_FLAT * qty
ItemNet(gross, qty) ==
    RSub(RMul(gross, RSub(FromInt(1), FEE_PERCENT)), RMul(FEE_FLAT, FromInt(qty)))

\* Variant: one per line item.
CountItems(total_subs, s) == total_subs + Len(s)
\* total_subs += 1, once per streamed subscription s
CountSub(total_subs, s) == total_subs + 1

\* The state of the pass: its local variables, and the Product.retrieve calls
\* it has issued so far, in order.
NewPass == [total_subs |-> 0, counts |-> EmptyDict, mrrs |-> EmptyDict,
            net_mrrs |-> EmptyDict, product_name_cache |-> EmptyDict,
            calls |-> <<>>]

\* One iteration of `for item in s["items"].data`.  The second argument of
\* setdefault is evaluated before the call, so Product.retrieve runs whenever
\* the nickname is falsy, cached or not; setdefault keeps the first name.
AddItem(acc, item) ==
    LET price == item.price
        looksUp == price.nickname = ""
        cache == IF looksUp /\ price.product \notin DOMAIN acc.product_name_cache
                 THEN Put(acc.product_name_cache, price.product,
                          ProductName(price.product))
                 ELSE acc.product_name_cache
        plan_name == IF looksUp
                     THEN OrStr(cache[price.product], price.id)
                     ELSE price.nickname
        qty == ItemQty(item)
        gross == Gross(price, qty)
        net == ItemNet(gross, qty)
    IN  [acc EXCEPT
           !.product_name_cache = cache,
           !.calls = IF looksUp THEN Append(@, price.product) ELSE @,
           !.counts = Put(@, plan_name, Get(@, plan_name, 0) + qty),
           !.mrrs = Put(@, plan_name, RAdd(Get(@, plan_name, FromInt(0)), gross)),
           !.net_mrrs = Put(@, plan_name, RAdd(Get(@, plan_name, FromInt(0)), net))]

RECURSIVE AddItems(_, _)
AddItems(acc, items) ==
    IF items = <<>> THEN acc
    ELSE AddItems(AddItem(acc, Head(items)), Tail(items))

\* `for s in subs_iter`
RECURSIVE StreamSubs(_, _)
StreamSubs(acc, list) ==
    IF list = <<>> THEN acc
    ELSE StreamSubs(
           AddItems([acc EXCEPT !.total_subs = CountSub(@, Head(list))],
                    Head(list)),
           Tail(list))

\* The pass over each list the API may return.
SubResult == [list \in SubLists \cup FewSubLists |-> StreamSubs(NewPass, list)]

\* Variant: labels the cycle did not see are set to 0.
PublishByPlanReset(gauge, d) ==
    [p \in PlanNames |-> IF p \in DOMAIN d THEN d[p] ELSE FromInt(0)]
\* `for name, v in d.items(): gauge.labels(plan_name=name).set(v)`
PublishByPlan(gauge, d) ==
    [p \in PlanNames |-> IF p \in DOMAIN d THEN d[p] ELSE gauge[p]]

IntDict(d) == [k \in DOMAIN d |-> FromInt(d[k])]

\* Product.retrieve calls per product among the first k calls of a pass.
CallsTo(calls, k, product) ==
    Cardinality({i \in 1..k : calls[i] = product})

CountLookups(calls, k) ==
    [p \in Products |-> CallsTo(calls, k, p)]

\* Variant: daemon=False.
DaemonOff == FALSE
\* daemon=True: the worker runs only while the main thread does.
Daemon == TRUE

WorkerRuns == main = "waiting" \/ ~Daemon

\* Variant: no except clause, the exception ends the thread.
Uncaught == "dead"
\* except Exception: log, then fall through to time.sleep(300).
AfterException == "sleep"

Init ==
    /\ pc = "subs"
    /\ main = "waiting"
    /\ failedAt = ""
    /\ subs = <<>>
    /\ charges = <<>>
    /\ lookups = [p \in Products |-> 0]
    /\ active_subs = FromInt(0)
    /\ subs_count_by_plan = [p \in PlanNames |-> UNSET]
    /\ subs_mrr_by_plan = [p \in PlanNames |-> UNSET]
    /\ subs_net_mrr_by_plan = [p \in PlanNames |-> UNSET]
    /\ payment_count_24h = FromInt(0)
    /\ total_revenue_24h = FromInt(0)
    /\ avg_payment_24h = FromInt(0)
    /\ fees_24h = FromInt(0)
    /\ net_revenue_24h = FromInt(0)
    /\ payment_count_24h_by_plan = [p \in PlanNames |-> UNSET]
    /\ revenue_24h_by_plan = [p \in PlanNames |-> UNSET]
    /\ revenue_net_24h_by_plan = [p \in PlanNames |-> UNSET]

\* time.sleep(300) returns and the next iteration of `while True` begins.
Wake ==
    /\ WorkerRuns
    /\ pc = "sleep"
    /\ pc' = "subs"
    /\ failedAt' = ""
    /\ subs' = <<>>
    /\ charges' = <<>>
    /\ lookups' = [p \in Products |-> 0]
    /\ UNCHANGED <<main, gauges>>

\* The subscription pass runs to its end and publishes its gauges.
SubscriptionPass(S) ==
    /\ WorkerRuns
    /\ pc = "subs"
    /\ \E list \in S :
         LET acc == SubResult[list]
             n == Len(acc.calls)
         IN  /\ subs' = list
             /\ lookups' = CountLookups(acc.calls, n)
             /\ active_subs' = FromInt(acc.total_subs)
             /\ subs_count_by_plan' = PublishByPlan(subs_count_by_plan, IntDict(acc.counts))
             /\ subs_mrr_by_plan' = PublishByPlan(subs_mrr_by_plan, acc.mrrs)
             /\ subs_net_mrr_by_plan' = PublishByPlan(subs_net_mrr_by_plan, acc.net_mrrs)
    /\ pc' = "charges"
    /\ UNCHANGED <<main, failedAt, charges, chargeGauges, planChargeGauges>>

\* Subscription.list (k = 0) or the k-th Product.retrieve of the pass raises.
SubscriptionPassRaises(S) ==
    /\ WorkerRuns
    /\ pc = "subs"
    /\ \E list \in S :
         LET acc == SubResult[list]
         IN  \E k \in 0..Len(acc.calls) :
               /\ lookups' = CountLookups(acc.calls, k)
               /\ failedAt' = IF k = 0 THEN "Subscription.list" ELSE "Product.retrieve"
    /\ pc' = AfterException
    /\ UNCHANGED <<main, subs, charges, gauges>>

(***************************************************************************)
(* fetch_charge_metrics.                                                   *)
(***************************************************************************)
\* successes = [c for c in charges.data if c.paid and c.status == succeeded]
IsSuccess(c) == c.paid /\ c.status = "succeeded"
Successes(page) == SelectSeq(page, IsSuccess)

\* sum(...) over a list of integers
RECURSIVE Sum(_)
Sum(s) == IF s = <<>> THEN 0 ELSE Head(s) + Sum(Tail(s))

Amounts(cs) == [i \in 1..Len(cs) |-> cs[i].amount]
Fees(cs) == [i \in 1..Len(cs) |-> cs[i].balance_transaction.fee]
Nets(cs) == [i \in 1..Len(cs) |-> cs[i].balance_transaction.net]

\* c.balance_transaction.fee on a charge whose balance_transaction is None
\* raises AttributeError, before any gauge of the pass is set.
LacksBalanceTransaction(page) ==
    \E i \in 1..Len(Successes(page)) :
        ~Successes(page)[i].balance_transaction.present

\* (gross_cents / len(successes)) / 100.0 if successes else 0.0
AvgPayment(gross_cents, n) ==
    IF n > 0 THEN RDivInt(Rat(gross_cents, n), 100) ELSE FromInt(0)

\* Charge.list raises.
ChargeListRaises ==
    /\ WorkerRuns
    /\ pc = "charges"
    /\ failedAt' = "Charge.list"
    /\ pc' = AfterException
    /\ UNCHANGED <<main, subs, charges, lookups, gauges>>

\* The page holds a successful charge without a balance transaction.
BalanceTransactionMissing(P) ==
    /\ WorkerRuns
    /\ pc = "charges"
    /\ \E page \in P :
         /\ LacksBalanceTransaction(page)
         /\ charges' = page
    /\ failedAt' = "balance_transaction"
    /\ pc' = AfterException
    /\ UNCHANGED <<main, subs, lookups, gauges>>

\* fetch_charge_metrics returns: the five global 24h gauges are set.
FetchChargeMetrics(P) ==
    /\ WorkerRuns
    /\ pc = "charges"
    /\ \E page \in P :
         LET successes == Successes(page)
             gross_cents == Sum(Amounts(successes))
             fees_cents == Sum(Fees(successes))
             net_cents == Sum(Nets(successes))
         IN  /\ ~LacksBalanceTransaction(page)
             /\ charges' = page
             /\ payment_count_24h' = FromInt(Len(successes))
             /\ total_revenue_24h' = RDivInt(FromInt(gross_cents), 100)
             /\ avg_payment_24h' = AvgPayment(gross_cents, Len(successes))
             /\ fees_24h' = RDivInt(FromInt(fees_cents), 100)
             /\ net_revenue_24h' = RDivInt(FromInt(net_cents), 100)
    /\ pc' = "invoices"
    /\ UNCHANGED <<main, failedAt, subs, lookups, subGauges, planChargeGauges>>

(***************************************************************************)
(* 24h-by-plan breakdown (fetch_metrics, second half).                     *)
(***************************************************************************)
\* Variant: one charge per invoice, the later ones skipped.
FirstPerInvoice(successes) ==
    LET invoiced == SelectSeq(successes, LAMBDA c : c.invoice # NoInvoice)
        Keep[i \in 0..Len(invoiced)] ==
            IF i = 0 THEN <<>>
            ELSE IF \E j \in 1..(i - 1) : invoiced[j].invoice = invoiced[i].invoice
                 THEN Keep[i - 1]
                 ELSE Append(Keep[i - 1], invoiced[i])
    IN  Keep[Len(invoiced)]
\* `for c in successes: if not c.invoice: continue`
InvoicedCharges(successes) ==
    SelectSeq(successes, LAMBDA c : c.invoice # NoInvoice)

\* plan_name = price.nickname or getattr(price.product, "name", None) or price.id
LinePlanName(price) ==
    OrStr(OrStr(price.nickname, ProductName(price.product)), price.id)

\* bt = next((c.balance_transaction for c in successes if c.invoice == inv.id), None)
FirstBT(successes, inv) ==
    LET hits == SelectSeq(successes, LAMBDA c : c.invoice = inv.id)
    IN  IF hits = <<>> THEN NoBT ELSE Head(hits).balance_transaction

NewBreakdown == [pay_counts |-> EmptyDict, pay_revenues |-> EmptyDict,
                 pay_net |-> EmptyDict]

\* One iteration of `for line in inv.lines.data`.
AddLine(acc, line, inv, successes) ==
    IF line.type # "subscription" THEN acc
    ELSE LET price == line.price
             plan_name == LinePlanName(price)
             qty == OrInt(line.quantity, 1)
             gross == Gross(price, qty)
             bt == FirstBT(successes, inv)
             fee == IF bt.present THEN RDivInt(FromInt(bt.fee), 100)
                    ELSE RAdd(RMul(gross, FEE_PERCENT), FEE_FLAT)
             net == RSub(gross, fee)
         IN  [acc EXCEPT
                !.pay_counts = Put(@, plan_name, Get(@, plan_name, 0) + qty),
                !.pay_revenues = Put(@, plan_name,
                                     RAdd(Get(@, plan_name, FromInt(0)), gross)),
                !.pay_net = Put(@, plan_name,
                                RAdd(Get(@, plan_name, FromInt(0)), net))]

RECURSIVE AddLines(_, _, _, _)
AddLines(acc, lines, inv, successes) ==
    IF lines = <<>> THEN acc
    ELSE AddLines(AddLine(acc, Head(lines), inv, successes), Tail(lines),
                  inv, successes)

\* `for c in successes`: the invoice comes from invoice_cache or from
\* Invoice.retrieve, and its lines are added once per charge.
RECURSIVE AddCharges(_, _, _)
AddCharges(acc, cs, successes) ==
    IF cs = <<>> THEN acc
    ELSE LET inv == Invoice(Head(cs).invoice)
         IN  AddCharges(AddLines(acc, inv.lines, inv, successes), Tail(cs),
                        successes)

Breakdown(successes) ==
    AddCharges(NewBreakdown, InvoicedCharges(successes), successes)

\* The breakdown of each page the API may return.
BreakdownOf == [page \in Pages \cup FewPages |-> Breakdown(Successes(page))]

\* Invoice.retrieve raises, before any by-plan gauge of the pass is set.
InvoiceRetrieveRaises ==
    /\ WorkerRuns
    /\ pc = "invoices"
    /\ InvoicedCharges(Successes(charges)) # <<>>
    /\ failedAt' = "Invoice.retrieve"
    /\ pc' = AfterException
    /\ UNCHANGED <<main, subs, charges, lookups, gauges>>

\* The breakdown runs to its end and publishes the 24h by-plan gauges.
PlanBreakdown ==
    /\ WorkerRuns
    /\ pc = "invoices"
    /\ LET acc == BreakdownOf[charges]
       IN  /\ payment_count_24h_by_plan' =
                 PublishByPlan(payment_count_24h_by_plan, IntDict(acc.pay_counts))
           /\ revenue_24h_by_plan' =
                 PublishByPlan(revenue_24h_by_plan, acc.pay_revenues)
           /\ revenue_net_24h_by_plan' =
                 PublishByPlan(revenue_net_24h_by_plan, acc.pay_net)
    /\ pc' = "sleep"
    /\ UNCHANGED <<main, failedAt, subs, charges, lookups, subGauges, chargeGauges>>

(***************************************************************************)
(* main: KeyboardInterrupt ends the main thread, and with it the process.  *)
(***************************************************************************)
Shutdown ==
    /\ main = "waiting"
    /\ main' = "exited"
    /\ UNCHANGED <<pc, failedAt, subs, charges, lookups, gauges>>

(***************************************************************************)
(* Specifications.  Spec explores the subscription pass over every list of *)
(* SubLists with a few charge pages; ChargeSpec explores the charge pass   *)
(* and the breakdown over every page of Pages with a few subscription      *)
(* lists.                                                                  *)
(***************************************************************************)
Cycle(S, P) ==
    \/ Wake
    \/ SubscriptionPass(S)
    \/ SubscriptionPassRaises(S)
    \/ ChargeListRaises
    \/ BalanceTransactionMissing(P)
    \/ FetchChargeMetrics(P)
    \/ InvoiceRetrieveRaises
    \/ PlanBreakdown

Next == Cycle(SubLists, FewPages) \/ Shutdown
Spec == Init /\ [][Next]_vars

ChargeNext == Cycle(FewSubLists, Pages) \/ Shutdown
ChargeSpec == Init /\ [][ChargeNext]_vars

(***************************************************************************)
(* What the claims speak of, stated on the data of the cycle and not on    *)
(* the passes above.                                                       *)
(***************************************************************************)
RECURSIVE SumFn(_)
SumFn(f) ==
    IF DOMAIN f = {} THEN 0
    ELSE LET x == CHOOSE y \in DOMAIN f : TRUE
         IN  f[x] + SumFn([y \in (DOMAIN f) \ {x} |-> f[y]])

\* The three-tier rule: nickname, else product display name, else price id.
Resolve(price) ==
    IF price.nickname # "" THEN price.nickname
    ELSE IF ProductName(price.product) # "" THEN ProductName(price.product)
    ELSE price.id

\* A quantity as the field holds it (an absent one adds nothing), and as the
\* program counts it (0 and absent count as 1).
FieldQty(q) == IF q = NONE THEN 0 ELSE q
CountedQty(q) == IF q = NONE \/ q = 0 THEN 1 ELSE q
CountedAmount(a) == IF a = NONE THEN 0 ELSE a

\* The line items of the streamed subscriptions that resolve to plan p.
ItemsOf(list, p) ==
    {pos \in UNION {{<<i, j>> : j \in 1..Len(list[i])} : i \in 1..Len(list)} :
        Resolve(list[pos[1]][pos[2]].price) = p}
SeenSubPlans(list) == {p \in PlanNames : ItemsOf(list, p) # {}}

\* The subscription lines, resolving to plan p, of the invoices of the
\* successful charges of a page: one entry per charge and line.
LinesOf(page, p) ==
    {pos \in UNION {{<<i, k>> : k \in 1..Len(Invoice(page[i].invoice).lines)} :
                      i \in {n \in 1..Len(page) :
                               /\ page[n].paid
                               /\ page[n].status = "succeeded"
                               /\ page[n].invoice # NoInvoice}} :
        LET line == Invoice(page[pos[1]].invoice).lines[pos[2]]
        IN  line.type = "subscription" /\ Resolve(line.price) = p}
SeenPayPlans(page) == {p \in PlanNames : LinesOf(page, p) # {}}
LineAt(page, pos) == Invoice(page[pos[1]].invoice).lines[pos[2]]

SuccessIdx(page) ==
    {n \in 1..Len(page) : page[n].paid /\ page[n].status = "succeeded"}

SubFailures == {"Subscription.list", "Product.retrieve"}
ChargeFailures == {"Charge.list", "balance_transaction"}

\* The subscription pass of the current cycle has completed.
SubPassDone ==
    \/ pc \in {"charges", "invoices"}
    \/ pc = "sleep" /\ failedAt \notin SubFailures
\* Charge.list has returned its page in the current cycle.
PageFetched ==
    \/ pc = "invoices"
    \/ pc = "sleep" /\ failedAt \in {"", "balance_transaction", "Invoice.retrieve"}
\* The current cycle has run to its end without an exception.
CycleDone == pc = "sleep" /\ failedAt = ""

(***************************************************************************)
(* C1: in every step, a plan name that is not in the result of the pass    *)
(* the step completes keeps the value of each of the six by-plan gauges;   *)
(* no step zeroes or removes a label it did not see.                       *)
(***************************************************************************)
C1_AbsentPlanKeepsValue ==
    [][\A p \in PlanNames :
         /\ ~(pc = "subs" /\ pc' = "charges" /\ p \in SeenSubPlans(subs'))
              => /\ subs_count_by_plan'[p] = subs_count_by_plan[p]
                 /\ subs_mrr_by_plan'[p] = subs_mrr_by_plan[p]
                 /\ subs_net_mrr_by_plan'[p] = subs_net_mrr_by_plan[p]
         /\ ~(pc = "invoices" /\ pc' = "sleep" /\ failedAt' = ""
                /\ p \in SeenPayPlans(charges))
              => /\ payment_count_24h_by_plan'[p] = payment_count_24h_by_plan[p]
                 /\ revenue_24h_by_plan'[p] = revenue_24h_by_plan[p]
                 /\ revenue_net_24h_by_plan'[p] = revenue_net_24h_by_plan[p]]_vars

\* A cycle has ended in which a plan published by an earlier cycle was seen
\* by neither pass, and its gauges still hold a value.
C1_Witness ==
    /\ CycleDone
    /\ \E p \in PlanNames :
         /\ p \notin SeenSubPlans(subs)
         /\ subs_count_by_plan[p] \notin {UNSET, FromInt(0)}
    /\ \E p \in PlanNames :
         /\ p \notin SeenPayPlans(charges)
         /\ payment_count_24h_by_plan[p] \notin {UNSET, FromInt(0)}

(***************************************************************************)
(* C2: once the subscription pass of a cycle has completed, the            *)
(* active_subscriptions gauge is the number of subscriptions streamed in   *)
(* that cycle, whatever the items and quantities they carry.               *)
(***************************************************************************)
C2_ActiveSubsIsRecordCount ==
    SubPassDone => active_subs = FromInt(Len(subs))

\* Two subscriptions were streamed, one without items and one with two.
C2_Witness ==
    /\ SubPassDone
    /\ active_subs = FromInt(2)
    /\ \E i, j \in 1..Len(subs) : Len(subs[i]) = 0 /\ Len(subs[j]) = 2

(***************************************************************************)
(* C3 (as amended): for every plan seen in a cycle, the value published to *)
(* active_subscriptions_by_plan is the sum, over the line items resolving  *)
(* to the plan, of the item's quantity with 0 and absent counted as 1.     *)
(***************************************************************************)
C3_CountIsSumOfCountedQuantity ==
    SubPassDone =>
      \A p \in SeenSubPlans(subs) :
        subs_count_by_plan[p] =
          FromInt(SumFn([pos \in ItemsOf(subs, p) |->
                           CountedQty(subs[pos[1]][pos[2]].quantity)]))

\* A plan was published from two items, one of them with an absent quantity.
C3_Witness ==
    /\ SubPassDone
    /\ \E p \in SeenSubPlans(subs) :
         /\ Cardinality(ItemsOf(subs, p)) >= 2
         /\ \E pos \in ItemsOf(subs, p) :
              subs[pos[1]][pos[2]].quantity \in {NONE, 0}

(***************************************************************************)
(* C3 as stated: the published count is the sum of the quantity field,     *)
(* also when that field is 0 or absent.                                    *)
(***************************************************************************)
C3_Original ==
    SubPassDone =>
      \A p \in SeenSubPlans(subs) :
        subs_count_by_plan[p] =
          FromInt(SumFn([pos \in ItemsOf(subs, p) |->
                           FieldQty(subs[pos[1]][pos[2]].quantity)]))

(***************************************************************************)
(* C4 as stated: for every page Charge.list returns, the global 24h gauges *)
(* hold the count of successful charges, their gross / 100, the average,   *)
(* and their balance-transaction fees and nets / 100.                      *)
(***************************************************************************)
C4_Original ==
    PageFetched =>
      LET ok == SuccessIdx(charges)
          gross == SumFn([n \in ok |-> charges[n].amount])
      IN  /\ payment_count_24h = FromInt(Cardinality(ok))
          /\ total_revenue_24h = Rat(gross, 100)
          /\ avg_payment_24h =
               IF ok = {} THEN FromInt(0) ELSE Rat(gross, 100 * Cardinality(ok))
          /\ fees_24h =
               Rat(SumFn([n \in ok |-> charges[n].balance_transaction.fee]), 100)
          /\ net_revenue_24h =
               Rat(SumFn([n \in ok |-> charges[n].balance_transaction.net]), 100)

\* The same, for the pages on which fetch_charge_metrics returns.
C4_WhenPassReturns ==
    (PageFetched /\ failedAt # "balance_transaction") => C4_Original

C6_ExceptionIsCycleLocal ==
    /\ [][(failedAt' # failedAt /\ failedAt' # "")
            => /\ pc' = "sleep"
               /\ UNCHANGED <<main, gauges>>]_vars
    /\ [](pc \in {"subs", "charges", "invoices", "sleep"})
    /\ []((pc = "sleep" /\ main = "waiting") => ENABLED Wake)
    /\ []((pc = "sleep" /\ failedAt \in ChargeFailures \cup {"Invoice.retrieve"})
            => /\ active_subs = FromInt(Len(subs))
               /\ \A p \in SeenSubPlans(subs) : subs_count_by_plan[p] # UNSET)
    /\ []((pc = "sleep" /\ failedAt = "Invoice.retrieve")
            => payment_count_24h = FromInt(Cardinality(SuccessIdx(charges))))

\* Charge.list raised after the subscription pass had published two
\* subscriptions; the worker sleeps, and their gauges are in place.
C6_Witness ==
    /\ pc = "sleep"
    /\ failedAt = "Charge.list"
    /\ Len(subs) = 2
    /\ active_subs = FromInt(2)
    /\ subs_count_by_plan["Basic"] = FromInt(2)

(***************************************************************************)
(* C7 as stated: when a successful charge of the page carries no balance   *)
(* transaction, the pass still publishes the payment count, the total      *)
(* revenue and the average payment of the cycle.                           *)
(***************************************************************************)
C7_Original ==
    (PageFetched /\ \E n \in SuccessIdx(charges) :
                      ~charges[n].balance_transaction.present)
    => LET ok == SuccessIdx(charges)
           gross == SumFn([n \in ok |-> charges[n].amount])
       IN  /\ payment_count_24h = FromInt(Cardinality(ok))
           /\ total_revenue_24h = Rat(gross, 100)
           /\ avg_payment_24h = Rat(gross, 100 * Cardinality(ok))

(***************************************************************************)
(* C8 as stated: at most one Product.retrieve call is issued per product   *)
(* reference.                                                              *)
(***************************************************************************)
C8_Original == \A p \in Products : lookups[p] <= 1

C10_NothingRunsAfterShutdown ==
    [][main = "exited" => UNCHANGED <<pc, failedAt, subs, charges, lookups, gauges>>]_vars

\* Shutdown came after the subscription gauges of the cycle were written
\* and before its charge gauges were.
C10_Witness ==
    /\ main = "exited"
    /\ pc = "charges"
    /\ subs # <<>>
    /\ active_subs = FromInt(Len(subs))

(***************************************************************************)
(* C10 as stated: a cycle in flight at shutdown runs to its end or to its  *)
(* first exception before the process stops.                               *)
(***************************************************************************)
C10_Original == main = "exited" => pc = "sleep"

=============================================================================
